---- MODULE Spec2Model ----
(***************************************************************************)
(* A model of roblox/presence.py (PresenceType, Presence,                  *)
(* PresenceProvider.get_user_presences) and roblox/shout.py (Shout).       *)
(*                                                                         *)
(* JSON values are tagged records: None is [t |-> "null"], an integer n is *)
(* [t |-> "int", n |-> n], a string s is [t |-> "str", s |-> s], a list is *)
(* [t |-> "arr", items |-> <<...>>] and a dict is [t |-> "obj", f |-> r]   *)
(* with r a function from the keys the dict holds to their values; a key   *)
(* the dict does not hold is not in DOMAIN r.  The result of running code  *)
(* that may raise is [kind |-> "ok", value |-> v] or                       *)
(* [kind |-> "raise", exc |-> <exception class>, arg |-> <its argument>].  *)
(***************************************************************************)
EXTENDS Integers, Sequences, FiniteSets, TLC

\* ------------------------------------------------------------------ bounds

\* Largest user identifier drawn for userId, the requested users and posters.
MaxId == 2
\* Largest identifier drawn for placeId, rootPlaceId, gameId and universeId.
MaxRef == 1
\* Longest list of requested users.
MaxUsers == 2
\* Longest userPresences array in a response.
MaxPresences == 2

\* The client contexts a provider, a Presence or a Shout may be given.
Clients == {"clientA", "clientB"}

\* ------------------------------------------------------------- JSON values

None == [t |-> "null"]
JInt(n) == [t |-> "int", n |-> n]
JStr(s) == [t |-> "str", s |-> s]
JArr(items) == [t |-> "arr", items |-> items]
JObj(f) == [t |-> "obj", f |-> f]

Ok(v) == [kind |-> "ok", value |-> v]
Raise(exc, arg) == [kind |-> "raise", exc |-> exc, arg |-> arg]

\* Marks a dict key left out when a payload is drawn; never a value in a dict.
Absent == [t |-> "absent"]

\* The dict holding exactly the keys of `choice` whose choice is not Absent.
Dict(choice) ==
    JObj([k \in {k \in DOMAIN choice : choice[k] # Absent} |-> choice[k]])

\* data[key]: a dict gives the value or raises KeyError(key); None, a str, an
\* int and a list indexed by a str key raise TypeError.
Subscript(data, key) ==
    IF data.t = "obj"
    THEN IF key \in DOMAIN data.f THEN Ok(data.f[key]) ELSE Raise("KeyError", key)
    ELSE Raise("TypeError", key)

\* data.get(key) of a dict: the value, or None when the key is not held.
Get(data, key) ==
    IF key \in DOMAIN data.f THEN data.f[key] ELSE None

\* Python's truth value of a JSON value: None, 0, "", [] and {} are false.
Truthy(v) ==
    CASE v.t = "null" -> FALSE
      [] v.t = "int" -> v.n # 0
      [] v.t = "str" -> v.s # ""
      [] v.t = "arr" -> v.items # <<>>
      [] v.t = "obj" -> DOMAIN v.f # {}

\* ------------------------------------------------------------ PresenceType

offline == 0
online == 1
in_game == 2
in_studio == 3

PresenceTypeMembers ==
    {[name |-> "offline", value |-> offline],
     [name |-> "online", value |-> online],
     [name |-> "in_game", value |-> in_game],
     [name |-> "in_studio", value |-> in_studio]}

\* Mutant: a value that is no member's is taken as offline.
PresenceTypeDefaulted(v) ==
    IF v.t = "int" /\ \E m \in PresenceTypeMembers : m.value = v.n
    THEN Ok(CHOOSE m \in PresenceTypeMembers : m.value = v.n)
    ELSE Ok([name |-> "offline", value |-> offline])

\* PresenceType(v): the member whose value is v, or ValueError.
PresenceType(v) ==
    IF v.t = "int" /\ \E m \in PresenceTypeMembers : m.value = v.n
    THEN Ok(CHOOSE m \in PresenceTypeMembers : m.value = v.n)
    ELSE Raise("ValueError", "userPresenceType")

\* ----------------------------------------------------------------- handles

\* The handle constructors store the identifier and the client and do nothing
\* else.
BasePlace(client, place_id) ==
    [class |-> "BasePlace", _client |-> client, id |-> place_id]
BaseJob(client, job_id) ==
    [class |-> "BaseJob", _client |-> client, id |-> job_id]
BaseUniverse(client, universe_id) ==
    [class |-> "BaseUniverse", _client |-> client, id |-> universe_id]
BaseUser(client, user_id) ==
    [class |-> "BaseUser", _client |-> client, id |-> user_id]
get_base_user(client, user_id) == BaseUser(client, user_id)

\* dateutil's parse: a datetime for a timestamp string, ValueError for another
\* string, TypeError for a value that is no string.
parse(v) ==
    IF v.t # "str" THEN Raise("TypeError", "parse")
    ELSE CASE v.s = "2023-01-01T00:00:00Z" -> Ok([datetime |-> 1672531200])
           [] v.s = "2023-01-02T00:00:00Z" -> Ok([datetime |-> 1672617600])
           [] OTHER -> Raise("ValueError", "parse")

\* ---------------------------------------------------------------- Presence

PresencePlace(client, data) ==
    IF Truthy(Get(data, "placeId"))
    THEN BasePlace(client, data.f["placeId"]) ELSE None

\* Mutant: the root place read from placeId, as a copied line would.
PresenceRootPlaceFromPlaceId(client, data) ==
    IF Truthy(Get(data, "placeId"))
    THEN BasePlace(client, data.f["placeId"]) ELSE None

PresenceRootPlace(client, data) ==
    IF Truthy(Get(data, "rootPlaceId"))
    THEN BasePlace(client, data.f["rootPlaceId"]) ELSE None

\* Mutant: the job is handed another client than the one Presence was given.
PresenceJobOtherClient(client, data) ==
    IF Truthy(Get(data, "gameId"))
    THEN BaseJob(CHOOSE c \in Clients : c # client, data.f["gameId"]) ELSE None

PresenceJob(client, data) ==
    IF Truthy(Get(data, "gameId"))
    THEN BaseJob(client, data.f["gameId"]) ELSE None

PresenceUniverse(client, data) ==
    IF Truthy(Get(data, "universeId"))
    THEN BaseUniverse(client, data.f["universeId"]) ELSE None

\* Presence.__init__: the statements in order, the first raise ending it.
Presence(client, data) ==
    LET upt == Subscript(data, "userPresenceType") IN
    IF upt.kind = "raise" THEN upt ELSE
    LET ptype == PresenceType(upt.value) IN
    IF ptype.kind = "raise" THEN ptype ELSE
    LET loc == Subscript(data, "lastLocation") IN
    IF loc.kind = "raise" THEN loc ELSE
    LET uid == Subscript(data, "userId") IN
    IF uid.kind = "raise" THEN uid ELSE
    LET lo == Subscript(data, "lastOnline") IN
    IF lo.kind = "raise" THEN lo ELSE
    LET last == parse(lo.value) IN
    IF last.kind = "raise" THEN last ELSE
    Ok([class |-> "Presence",
        _client |-> client,
        user_presence_type |-> ptype.value,
        last_location |-> loc.value,
        place |-> PresencePlace(client, data),
        root_place |-> PresenceRootPlace(client, data),
        job |-> PresenceJob(client, data),
        universe |-> PresenceUniverse(client, data),
        user |-> get_base_user(client, uid.value),
        last_online |-> last.value])

\* -------------------------------------------------------- PresenceProvider

ProviderInit(client) == [class |-> "PresenceProvider", _client |-> client]

\* int(user): a raw integer is itself, a user handle converts to its id.
int(user) == IF "t" \in DOMAIN user THEN user.n ELSE user.id

\* Mutant: an id already in the list is not sent again.
RECURSIVE UserIdsDistinct(_)
UserIdsDistinct(users) ==
    IF users = <<>> THEN <<>>
    ELSE LET rest == UserIdsDistinct(Tail(users))
             id == JInt(int(Head(users))) IN
         IF \E i \in 1..Len(rest) : rest[i] = id THEN rest ELSE <<id>> \o rest

\* list(map(int, users))
RECURSIVE UserIds(_)
UserIds(users) ==
    IF users = <<>> THEN <<>>
    ELSE <<JInt(int(Head(users)))>> \o UserIds(Tail(users))

\* Mutant: an empty user list is answered without a request.
RequestsPostedUnlessEmpty(users) ==
    IF users = <<>> THEN <<>>
    ELSE <<[url |-> "presence/v1/presence/users",
            json |-> JObj([userIds |-> JArr(UserIds(users))])]>>

\* The posts get_user_presences makes before it suspends: one, of the url and
\* the body {"userIds": [...]}.
RequestsPosted(users) ==
    <<[url |-> "presence/v1/presence/users",
       json |-> JObj([userIds |-> JArr(UserIds(users))])]>>

\* What a for-loop over v visits: a list's items, a dict's keys, a str's
\* characters (strings of at most one character are drawn, and such a string
\* is its own only character); None and an int are not iterable.
RECURSIVE KeysOf(_)
KeysOf(ks) ==
    IF ks = {} THEN <<>>
    ELSE LET k == CHOOSE k \in ks : TRUE IN <<JStr(k)>> \o KeysOf(ks \ {k})

Iter(v) ==
    CASE v.t = "arr" -> Ok(v.items)
      [] v.t = "obj" -> Ok(KeysOf(DOMAIN v.f))
      [] v.t = "str" -> Ok(IF v.s = "" THEN <<>> ELSE <<v>>)
      [] OTHER -> Raise("TypeError", "iter")

\* Mutant: each record is put in front of the ones built so far.
RECURSIVE PresenceListPrepending(_, _)
PresenceListPrepending(client, items) ==
    IF items = <<>> THEN Ok(<<>>)
    ELSE LET first == Presence(client, Head(items)) IN
         IF first.kind = "raise" THEN first
         ELSE LET others == PresenceListPrepending(client, Tail(items)) IN
              IF others.kind = "raise" THEN others
              ELSE Ok(others.value \o <<first.value>>)

\* Mutant: an element that does not map is skipped.
RECURSIVE PresenceListSkipping(_, _)
PresenceListSkipping(client, items) ==
    IF items = <<>> THEN Ok(<<>>)
    ELSE LET first == Presence(client, Head(items))
             others == PresenceListSkipping(client, Tail(items)) IN
         IF first.kind = "raise" THEN others
         ELSE Ok(<<first.value>> \o others.value)

\* [Presence(client=self._client, data=d) for d in items]: left to right, the
\* first raise ending the comprehension.
RECURSIVE PresenceList(_, _)
PresenceList(client, items) ==
    IF items = <<>> THEN Ok(<<>>)
    ELSE LET first == Presence(client, Head(items)) IN
         IF first.kind = "raise" THEN first
         ELSE LET others == PresenceList(client, Tail(items)) IN
              IF others.kind = "raise" THEN others
              ELSE Ok(<<first.value>> \o others.value)

\* get_user_presences after the post has returned `json`.
MapResponse(client, json) ==
    LET presences_data == Subscript(json, "userPresences") IN
    IF presences_data.kind = "raise" THEN presences_data ELSE
    LET items == Iter(presences_data.value) IN
    IF items.kind = "raise" THEN items ELSE
    PresenceList(client, items.value)

\* ------------------------------------------------------------------- Shout

\* The partial-user constructor keeps the shared object and the poster data.
PartialUser(shared, data) ==
    [class |-> "PartialUser", _shared |-> shared, data |-> data]

\* Mutant: a payload without body gets the empty text.
ShoutBodyOrEmpty(data) ==
    IF data.t = "obj" /\ "body" \notin DOMAIN data.f THEN Ok(JStr(""))
    ELSE Subscript(data, "body")

\* data["body"]
ShoutBody(data) == Subscript(data, "body")

\* Shout.__init__: the statements in order, the first raise ending it.
Shout(shared, data) ==
    LET body == ShoutBody(data) IN
    IF body.kind = "raise" THEN body ELSE
    LET c == Subscript(data, "created") IN
    IF c.kind = "raise" THEN c ELSE
    LET created == parse(c.value) IN
    IF created.kind = "raise" THEN created ELSE
    LET u == Subscript(data, "updated") IN
    IF u.kind = "raise" THEN u ELSE
    LET updated == parse(u.value) IN
    IF updated.kind = "raise" THEN updated ELSE
    LET poster == Subscript(data, "poster") IN
    IF poster.kind = "raise" THEN poster ELSE
    Ok([class |-> "Shout",
        _shared |-> shared,
        body |-> body.value,
        created |-> created.value,
        updated |-> updated.value,
        poster |-> PartialUser(shared, poster.value)])

\* ------------------------------------------------------------------- state

VARIABLES
    pclient,    \* Presence.__init__: the client argument (None: no call)
    pdata,      \* Presence.__init__: the data argument
    presult,    \* Presence.__init__: its result (None: not run yet)
    provider,   \* the PresenceProvider (None: none was built)
    pc,         \* get_user_presences: "idle", "await" (at the post), "done"
    users,      \* get_user_presences: the users argument of the current call
    posted,     \* the requests the current call has handed to the transport
    response,   \* the JSON the post returned (None: none)
    outcome,    \* what the call returned or raised (None: nothing yet)
    shared,     \* Shout.__init__: the shared argument (None: no call)
    sdata,      \* Shout.__init__: the data argument
    sresult     \* Shout.__init__: its result (None: not run yet)

vars == <<pclient, pdata, presult, provider, pc, users, posted, response,
          outcome, shared, sdata, sresult>>
presenceVars == <<pclient, pdata, presult>>
providerVars == <<provider, pc, users, posted, response, outcome>>
shoutVars == <<shared, sdata, sresult>>

NoPresence == pclient = None /\ pdata = None /\ presult = None
NoProvider ==
    /\ provider = None /\ pc = "idle" /\ users = <<>> /\ posted = <<>>
    /\ response = None /\ outcome = None
NoShout == shared = None /\ sdata = None /\ sresult = None

\* ---- Presence.__init__ on its own

\* The presence payloads drawn: every key left out or given each kind of value.
OptionalIds == {Absent, None} \cup {JInt(n) : n \in 0..MaxRef}
PresencePayloads ==
    {Dict(c) : c \in
        [userPresenceType : {Absent} \cup {JInt(n) : n \in (offline - 1)..(in_studio + 1)},
         lastLocation : {Absent, JStr("Baseplate")},
         placeId : OptionalIds,
         rootPlaceId : OptionalIds,
         gameId : OptionalIds,
         universeId : OptionalIds,
         userId : {Absent, None} \cup {JInt(n) : n \in 1..MaxId},
         lastOnline : {Absent, JStr("yesterday"), JStr("2023-01-01T00:00:00Z")}]}

InitPresence ==
    /\ pclient \in Clients
    /\ pdata \in PresencePayloads
    /\ presult = None
    /\ NoProvider /\ NoShout

PresenceConstruct ==
    /\ pdata # None
    /\ presult = None
    /\ presult' = Presence(pclient, pdata)
    /\ UNCHANGED <<pclient, pdata, providerVars, shoutVars>>

NextPresence == PresenceConstruct

SpecPresence == InitPresence /\ [][NextPresence]_vars

\* ---- PresenceProvider.get_user_presences

\* The users a call is given: raw integers and user handles, in any order,
\* with repeats.
UserArgs ==
    {JInt(n) : n \in 1..MaxId} \cup {BaseUser("clientA", n) : n \in 1..MaxId}
SeqsUpTo(S, n) == UNION {[1..k -> S] : k \in 0..n}
UserLists == SeqsUpTo(UserArgs, MaxUsers)

\* The elements of a userPresences array: presence entries that map, entries
\* with an unknown presence type or without userId, and null.
ResponseElements ==
    {None} \cup
    {Dict(c) : c \in
        [userPresenceType : {JInt(in_game), JInt(in_studio + 1)},
         lastLocation : {JStr("Baseplate")},
         placeId : {JInt(MaxRef)},
         rootPlaceId : {JInt(0)},
         gameId : {JInt(MaxRef)},
         universeId : {JInt(MaxRef)},
         userId : {Absent} \cup {JInt(n) : n \in 1..MaxId},
         lastOnline : {JStr("2023-01-01T00:00:00Z")}]}

\* The JSON a post may return: userPresences missing, or null, a number, a
\* string, an object, or an array of elements.
Responses ==
    {Dict([userPresences |-> v]) : v \in
        {Absent, None, JInt(0), JInt(1), JStr(""), JStr("x"),
         Dict([a |-> Absent]), Dict([a |-> None])}
        \cup {JArr(items) : items \in SeqsUpTo(ResponseElements, MaxPresences)}}

\* What the transport raises when the post fails.
TransportErrors == {Raise("HTTPException", "post"), Raise("NetworkError", "post")}

InitProvider ==
    /\ provider \in {ProviderInit(c) : c \in Clients}
    /\ pc = "idle" /\ users = <<>> /\ posted = <<>>
    /\ response = None /\ outcome = None
    /\ NoPresence /\ NoShout

\* get_user_presences up to its await: the request is built and posted.
GetUserPresencesPost ==
    /\ provider # None
    /\ pc = "idle"
    /\ \E us \in UserLists :
        /\ users' = us
        /\ posted' = RequestsPosted(us)
    /\ pc' = "await"
    /\ response' = None
    /\ outcome' = None
    /\ UNCHANGED <<provider, presenceVars, shoutVars>>

\* The post raises: the exception leaves get_user_presences unchanged.
GetUserPresencesRaise ==
    /\ pc = "await"
    /\ \E e \in TransportErrors : outcome' = e
    /\ pc' = "done"
    /\ UNCHANGED <<provider, users, posted, response, presenceVars, shoutVars>>

\* The post returns: the response is mapped and the call ends.
GetUserPresencesReturn ==
    /\ pc = "await"
    /\ \E json \in Responses :
        /\ response' = json
        /\ outcome' = MapResponse(provider._client, json)
    /\ pc' = "done"
    /\ UNCHANGED <<provider, users, posted, presenceVars, shoutVars>>

NextProvider ==
    \/ GetUserPresencesPost
    \/ GetUserPresencesRaise
    \/ GetUserPresencesReturn

SpecProvider == InitProvider /\ [][NextProvider]_vars

\* ---- Shout.__init__

ShoutPayloads ==
    {Dict(c) : c \in
        [body : {Absent, JStr("hi")},
         created : {Absent, JStr("yesterday"), JStr("2023-01-01T00:00:00Z")},
         updated : {Absent, JStr("yesterday"), JStr("2023-01-02T00:00:00Z")},
         poster : {Absent} \cup {JObj([id |-> JInt(n)]) : n \in 1..MaxId}]}

InitShout ==
    /\ shared \in Clients
    /\ sdata \in ShoutPayloads
    /\ sresult = None
    /\ NoPresence /\ NoProvider

ShoutConstruct ==
    /\ sdata # None
    /\ sresult = None
    /\ sresult' = Shout(shared, sdata)
    /\ UNCHANGED <<shared, sdata, presenceVars, providerVars>>

NextShout == ShoutConstruct

SpecShout == InitShout /\ [][NextShout]_vars

\* ---- every operation

Init == InitPresence \/ InitProvider \/ InitShout

Next ==
    \/ PresenceConstruct
    \/ GetUserPresencesPost
    \/ GetUserPresencesRaise
    \/ GetUserPresencesReturn
    \/ ShoutConstruct

Spec == Init /\ [][Next]_vars

\* ---------------------------------------------------------------- claims

\* The spec's error names for what the code raises.
MissingRequiredField(r, key) == r = Raise("KeyError", key)
InvalidEnumValue(r) == r = Raise("ValueError", "userPresenceType")
MalformedTimestamp(r) == r = Raise("ValueError", "parse")

Constructed(r) == r # None /\ r.kind = "ok"
Holds(data, key) == key \in DOMAIN data.f

\* The rule of one optional handle, stated on its own identifier field.
HandleRule(h, data, key, class) ==
    IF ~Holds(data, key) \/ data.f[key] = None \/ data.f[key] = JInt(0)
    THEN h = None
    ELSE h # None /\ h.class = class /\ h.id = data.f[key]

\* C1: on every payload Presence construction succeeds on, each of place,
\* root_place, job and universe is None when its own key (placeId,
\* rootPlaceId, gameId, universeId) is absent, null or 0, and otherwise a
\* handle holding exactly that key's value, whatever the other three are.
C1_OptionalHandles ==
    Constructed(presult) =>
        /\ HandleRule(presult.value.place, pdata, "placeId", "BasePlace")
        /\ HandleRule(presult.value.root_place, pdata, "rootPlaceId", "BasePlace")
        /\ HandleRule(presult.value.job, pdata, "gameId", "BaseJob")
        /\ HandleRule(presult.value.universe, pdata, "universeId", "BaseUniverse")

C1_Witness ==
    /\ Constructed(presult)
    /\ Holds(pdata, "placeId") /\ pdata.f["placeId"] = JInt(1)
    /\ Holds(pdata, "rootPlaceId") /\ pdata.f["rootPlaceId"] = JInt(0)
    /\ Holds(pdata, "gameId") /\ pdata.f["gameId"] = None
    /\ ~Holds(pdata, "universeId")
    /\ presult.value.place = BasePlace(pclient, JInt(1))
    /\ presult.value.root_place = None
    /\ presult.value.job = None
    /\ presult.value.universe = None

\* The member name the spec gives each presence-type integer.
MemberName(n) ==
    CASE n = 0 -> "offline" [] n = 1 -> "online"
      [] n = 2 -> "in_game" [] n = 3 -> "in_studio"

\* C2: an integer userPresenceType of 0, 1, 2 or 3 never fails as an enum
\* value and a record built from it carries the member offline, online,
\* in_game or in_studio of that value; any other integer makes construction
\* fail with InvalidEnumValue, and no record is produced.
C2_PresenceTypeExact ==
    (presult # None /\ Holds(pdata, "userPresenceType")) =>
        LET n == pdata.f["userPresenceType"].n IN
        IF n \in {0, 1, 2, 3}
        THEN /\ ~InvalidEnumValue(presult)
             /\ presult.kind = "ok" =>
                    /\ presult.value.user_presence_type.name = MemberName(n)
                    /\ presult.value.user_presence_type.value = n
        ELSE InvalidEnumValue(presult)

C2_Witness ==
    /\ presult # None
    /\ Holds(pdata, "userPresenceType")
    /\ pdata.f["userPresenceType"] = JInt(4)
    /\ Holds(pdata, "userId") /\ Holds(pdata, "lastOnline")
    /\ InvalidEnumValue(presult)

\* The required fields of a presence payload other than userId are there and
\* well formed.
OthersFine(data) ==
    /\ Holds(data, "userPresenceType")
    /\ data.f["userPresenceType"].n \in {0, 1, 2, 3}
    /\ Holds(data, "lastLocation")
    /\ Holds(data, "lastOnline")
    /\ parse(data.f["lastOnline"]).kind = "ok"

\* C6: a payload whose userId is missing or null, and which is fine
\* otherwise, makes Presence construction fail with MissingRequiredField
\* naming userId and produce no record; on success user is a handle holding
\* the payload's userId.
C6_UserIdRequired ==
    presult # None =>
        /\ (OthersFine(pdata) /\ (~Holds(pdata, "userId") \/ pdata.f["userId"] = None))
               => MissingRequiredField(presult, "userId")
        /\ presult.kind = "ok" =>
               /\ presult.value.user.class = "BaseUser"
               /\ presult.value.user.id = pdata.f["userId"]

\* The response holds a userPresences array.
HasArray(json) ==
    /\ json # None
    /\ Holds(json, "userPresences")
    /\ json.f["userPresences"].t = "arr"
ArrayOf(json) == json.f["userPresences"].items

\* C3: when get_user_presences returns, it returns as many records as the
\* userPresences array has elements, and record i is the mapping of element
\* i: in response order, nothing dropped, repeated or moved.
C3_ResponseOrderKept ==
    (pc = "done" /\ outcome.kind = "ok" /\ HasArray(response)) =>
        /\ Len(outcome.value) = Len(ArrayOf(response))
        /\ \A i \in 1..Len(ArrayOf(response)) :
            /\ Ok(outcome.value[i]) = Presence(provider._client, ArrayOf(response)[i])
            /\ outcome.value[i].user.id = ArrayOf(response)[i].f["userId"]

C3_Witness ==
    /\ pc = "done" /\ outcome.kind = "ok" /\ HasArray(response)
    /\ users = <<JInt(1), JInt(2)>>
    /\ Len(ArrayOf(response)) = 2
    /\ outcome.value[1].user.id = JInt(2)
    /\ outcome.value[2].user.id = JInt(1)

\* C4: a call of get_user_presences hands the transport exactly one request,
\* whatever its users and its outcome: one while the post is awaited, before
\* any record exists, and still one when the call has returned or raised.
C4_OnePostPerCall ==
    /\ pc = "idle" => posted = <<>>
    /\ pc = "await" => Len(posted) = 1 /\ outcome = None
    /\ pc = "done" => Len(posted) = 1 /\ outcome # None

C4_Witness ==
    /\ pc = "done"
    /\ users = <<>>
    /\ Len(posted) = 1
    /\ outcome.kind = "ok"
    /\ Len(outcome.value) = 2

\* C5: the body of the request is {"userIds": L} with L as long as users and
\* L[i] the integer users[i] is (a raw integer) or the id it holds (a user
\* handle), in input order, duplicates kept.
C5_RequestBody ==
    pc # "idle" =>
        LET body == posted[1].json IN
        /\ body.t = "obj"
        /\ DOMAIN body.f = {"userIds"}
        /\ body.f["userIds"].t = "arr"
        /\ Len(body.f["userIds"].items) = Len(users)
        /\ \A i \in 1..Len(users) :
            body.f["userIds"].items[i] =
                IF "class" \in DOMAIN users[i]
                THEN JInt(users[i].id) ELSE JInt(users[i].n)

C5_Witness ==
    /\ pc = "await"
    /\ users = <<BaseUser("clientA", 2), JInt(2)>>
    /\ posted[1].json.f["userIds"].items = <<JInt(2), JInt(2)>>

\* C7: a response without the userPresences key, or whose userPresences is
\* no array, ends get_user_presences in an error; no list is returned.
C7_MalformedResponse ==
    (pc = "done" /\ response # None /\ ~HasArray(response)) =>
        outcome.kind = "raise"

\* The first element of items that does not map, or 0.
FirstBad(client, items) ==
    IF \E i \in 1..Len(items) : Presence(client, items[i]).kind = "raise"
    THEN CHOOSE i \in 1..Len(items) :
            /\ Presence(client, items[i]).kind = "raise"
            /\ \A j \in 1..(i - 1) : Presence(client, items[j]).kind = "ok"
    ELSE 0

\* C8: get_user_presences is all or nothing: a failed post surfaces as the
\* transport's error, an element of userPresences that does not map (at any
\* position) surfaces as that element's error, and in both cases no record
\* is returned.
C8_AllOrNothing ==
    pc = "done" =>
        /\ response = None => outcome \in TransportErrors
        /\ HasArray(response) =>
            LET bad == FirstBad(provider._client, ArrayOf(response)) IN
            bad # 0 => outcome = Presence(provider._client, ArrayOf(response)[bad])

C8_Witness ==
    /\ pc = "done" /\ HasArray(response)
    /\ Len(ArrayOf(response)) = 2
    /\ Presence(provider._client, ArrayOf(response)[1]).kind = "ok"
    /\ Presence(provider._client, ArrayOf(response)[2]).kind = "raise"
    /\ MissingRequiredField(outcome, "userId")

\* The keys Shout construction reads, in the order it reads them.
ShoutKeys == <<"body", "created", "updated", "poster">>
MissingShoutKeys == {i \in 1..Len(ShoutKeys) : ~Holds(sdata, ShoutKeys[i])}
FirstMissing == CHOOSE i \in MissingShoutKeys : \A j \in MissingShoutKeys : i <= j
\* A timestamp key read before key i is there and does not parse.
BadStampBefore(i) ==
    \E j \in 1..(i - 1) :
        /\ ShoutKeys[j] \in {"created", "updated"}
        /\ Holds(sdata, ShoutKeys[j])
        /\ parse(sdata.f[ShoutKeys[j]]).kind = "raise"
ShoutWellFormed ==
    /\ MissingShoutKeys = {}
    /\ parse(sdata.f["created"]).kind = "ok"
    /\ parse(sdata.f["updated"]).kind = "ok"
ShoutAsPayload ==
    /\ sresult.kind = "ok"
    /\ sresult.value.class = "Shout"
    /\ sresult.value.body = sdata.f["body"]
    /\ sresult.value.poster.class = "PartialUser"
    /\ sresult.value.poster.data = sdata.f["poster"]

\* C9 as stated: whenever any of body, created, updated and poster is absent,
\* Shout construction fails with MissingRequiredField and yields no Shout;
\* with all four present and well formed it yields the Shout of the payload's
\* body and poster.
C9_AbsentIsMissingField ==
    sresult # None =>
        /\ MissingShoutKeys # {} =>
               /\ sresult.kind = "raise"
               /\ \E i \in MissingShoutKeys :
                      MissingRequiredField(sresult, ShoutKeys[i])
        /\ ShoutWellFormed => ShoutAsPayload

\* C9 as amended: whenever any of the four keys is absent, Shout construction
\* fails and yields no Shout; the error is MissingRequiredField naming the
\* first absent key in reading order, unless a timestamp read before that key
\* does not parse, and then it is MalformedTimestamp.  With all four present
\* and well formed it yields the Shout of the payload's body and poster.
C9_AbsentFails ==
    sresult # None =>
        /\ MissingShoutKeys # {} =>
               /\ sresult.kind = "raise"
               /\ IF BadStampBefore(FirstMissing)
                  THEN MalformedTimestamp(sresult)
                  ELSE MissingRequiredField(sresult, ShoutKeys[FirstMissing])
        /\ ShoutWellFormed => ShoutAsPayload

C9_Witness ==
    /\ sresult # None
    /\ MissingShoutKeys = {3, 4}
    /\ ~BadStampBefore(3)
    /\ MissingRequiredField(sresult, "updated")

\* Every handle of a Presence record that is there holds `client`.
PresenceHolds(p, client) ==
    /\ p._client = client
    /\ p.user._client = client
    /\ \A h \in {p.place, p.root_place, p.job, p.universe} :
           h # None => h._client = client

\* C10: every object the mappers build holds the context the mapper was
\* given: each Presence returned by get_user_presences, its user handle and
\* its place, root_place, job and universe handles that are there hold the
\* provider's client (a Presence built directly, the client it was given); a
\* Shout and its poster hold the shared object given to Shout; and the
\* provider's client is one of the clients, as at its construction.
C10_OneContext ==
    /\ provider # None =>
           /\ provider._client \in Clients
           /\ (outcome # None /\ outcome.kind = "ok") =>
                  \A i \in 1..Len(outcome.value) :
                      PresenceHolds(outcome.value[i], provider._client)
    /\ Constructed(presult) => PresenceHolds(presult.value, pclient)
    /\ Constructed(sresult) =>
           /\ sresult.value._shared = shared
           /\ sresult.value.poster._shared = shared

C10_Witness ==
    /\ provider # None /\ provider._client = "clientB"
    /\ pc = "done" /\ outcome.kind = "ok"
    /\ Len(outcome.value) = 2
    /\ \A i \in 1..2 :
        /\ outcome.value[i].place # None
        /\ outcome.value[i].job # None
        /\ outcome.value[i].universe # None
        /\ PresenceHolds(outcome.value[i], "clientB")

====
